---- MODULE Spec2Model ----
(***************************************************************************)
(* A model of validate_hn_freight_matrix_file.py: the validators of        *)
(* freight-matrix rows (sku, postCode, price) read from CSV, pasted CSV    *)
(* and JSON sources, and the export of the validated records to single,    *)
(* row-chunked or grouped files.                                           *)
(*                                                                         *)
(* Text is modelled as a sequence of one-character strings, so that        *)
(* trimming, quote stripping, concatenation and sanitising are computed    *)
(* character by character as the code computes them.  Header names and     *)
(* JSON keys are TLA+ strings; their strip().lower() is the table          *)
(* StripLower over the headers the model uses.                             *)
(***************************************************************************)
EXTENDS Integers, Sequences, FiniteSets, TLC

(***************************************************************************)
(* Bounds of the model.                                                    *)
(***************************************************************************)
\* Rows (CSV data rows, JSON items or NDJSON lines) read in one validation run.
MaxRows == 3

(***************************************************************************)
(* Characters.                                                             *)
(***************************************************************************)
Quote == "\""
Whitespace == {" "}
Digits == {"0", "1", "2", "3", "4", "5", "6", "7", "8", "9"}
Letters == {"A", "B", "M", "U", "D", "a", "b", "m", "u", "d", "x"}

\* str.isalnum() of one character
IsAlnum(c) == c \in Letters \cup Digits

\* str.isdigit() of one character
IsDigit(c) == c \in Digits

DigitVal(c) ==
  CASE c = "0" -> 0 [] c = "1" -> 1 [] c = "2" -> 2 [] c = "3" -> 3
    [] c = "4" -> 4 [] c = "5" -> 5 [] c = "6" -> 6 [] c = "7" -> 7
    [] c = "8" -> 8 [] c = "9" -> 9

RECURSIVE LStripSet(_, _)
\* str.lstrip(chars)
LStripSet(s, cs) ==
  IF s # <<>> /\ Head(s) \in cs THEN LStripSet(Tail(s), cs) ELSE s

RECURSIVE RStripSet(_, _)
\* str.rstrip(chars)
RStripSet(s, cs) ==
  IF s # <<>> /\ s[Len(s)] \in cs
  THEN RStripSet(SubSeq(s, 1, Len(s) - 1), cs)
  ELSE s

\* str.strip(chars)
StripSet(s, cs) == RStripSet(LStripSet(s, cs), cs)

RECURSIVE RemoveChars(_, _)
\* s with every character of cs removed (str.replace(c, "") for each c)
RemoveChars(s, cs) ==
  IF s = <<>> THEN <<>>
  ELSE IF Head(s) \in cs THEN RemoveChars(Tail(s), cs)
  ELSE <<Head(s)>> \o RemoveChars(Tail(s), cs)

RECURSIVE Repeat(_, _)
Repeat(c, n) == IF n = 0 THEN <<>> ELSE <<c>> \o Repeat(c, n - 1)

(***************************************************************************)
(* Values of a cell or of a JSON member: a string, a number (held by its   *)
(* str()), or None.                                                        *)
(***************************************************************************)
Str(s) == [t |-> "str", s |-> s]
Num(s) == [t |-> "num", s |-> s]
None == [t |-> "none", s |-> <<>>]

\* normalize_str: None -> "", a number -> str(v).strip(), anything else
\* str(v).strip().strip('"').strip()
normalize_str(v) ==
  IF v.t = "none" THEN <<>>
  ELSE IF v.t = "num" THEN StripSet(v.s, Whitespace)
  ELSE StripSet(StripSet(StripSet(v.s, Whitespace), {Quote}), Whitespace)

(***************************************************************************)
(* Field validators.                                                       *)
(***************************************************************************)
SkuMaxLen == 64
PostcodeLen == 4
SkuPunct == {"-", "_", ".", "/"}

\* is_valid_sku after its first line, s = normalize_str(s)
SkuVerdict(s) ==
  IF s = <<>> THEN [ok |-> FALSE, err |-> "sku empty"]
  ELSE IF \E i \in 1..Len(s) : ~(IsAlnum(s[i]) \/ s[i] \in SkuPunct)
    THEN [ok |-> FALSE, err |-> "sku has invalid characters"]
  ELSE IF Len(s) > SkuMaxLen THEN [ok |-> FALSE, err |-> "sku too long"]
  ELSE [ok |-> TRUE, err |-> ""]

is_valid_sku(s0) == SkuVerdict(normalize_str(Str(s0)))

\* is_valid_postcode after its first line, pc = normalize_str(pc)
PostcodeVerdict(pc) ==
  IF pc = <<>> THEN [ok |-> FALSE, err |-> "postCode empty"]
  ELSE IF ~(\A i \in 1..Len(pc) : IsDigit(pc[i])) \/ Len(pc) # PostcodeLen
    THEN [ok |-> FALSE, err |-> "postCode must be 4 digits"]
  ELSE [ok |-> TRUE, err |-> ""]

is_valid_postcode(pc0) == PostcodeVerdict(normalize_str(Str(pc0)))

\* The characters normalize_price removes before float(): "," and each
\* character of "$€£AUDaud ".
PriceStrip == {",", "$", "A", "U", "D", "a", "u", "d", " "}

RECURSIVE DigitsVal(_)
\* the number a string of digits denotes
DigitsVal(s) ==
  IF s = <<>> THEN 0
  ELSE 10 * DigitsVal(SubSeq(s, 1, Len(s) - 1)) + DigitVal(s[Len(s)])

\* The index of the first "." of s, or 0.
DotAt(s) ==
  IF \E i \in 1..Len(s) : s[i] = "."
  THEN CHOOSE i \in 1..Len(s) : s[i] = "." /\ \A j \in 1..(i - 1) : s[j] # "."
  ELSE 0

\* The digits of a float literal: before and after its first ".".
SplitAtDot(body, dot) ==
  [ip |-> IF dot = 0 THEN body ELSE SubSeq(body, 1, dot - 1),
   fp |-> IF dot = 0 THEN <<>> ELSE SubSeq(body, dot + 1, Len(body))]

FloatOf(neg, d) ==
  IF /\ Len(d.ip) + Len(d.fp) >= 1
     /\ \A i \in 1..Len(d.ip) : IsDigit(d.ip[i])
     /\ \A i \in 1..Len(d.fp) : IsDigit(d.fp[i])
  THEN [ok |-> TRUE, neg |-> neg, inf |-> FALSE, ip |-> d.ip, fp |-> d.fp]
  ELSE [ok |-> FALSE, neg |-> neg, inf |-> FALSE, ip |-> <<>>, fp |-> <<>>]

UnsignedFloat(neg, body) ==
  IF body = <<"i", "n", "f">>
  THEN [ok |-> TRUE, neg |-> neg, inf |-> TRUE, ip |-> <<>>, fp |-> <<>>]
  ELSE FloatOf(neg, SplitAtDot(body, DotAt(body)))

\* float(clean) on the model's alphabet (sign, digits, one ".", and the
\* literal inf): the sign, whether the value is infinite, the integer
\* digits and the fraction digits; ok is FALSE where float() raises
\* ValueError.
ParseFloat(clean) ==
  IF clean # <<>> /\ Head(clean) \in {"-", "+"}
  THEN UnsignedFloat(Head(clean) = "-", Tail(clean))
  ELSE UnsignedFloat(FALSE, clean)

\* round(val, 2) of a non-negative decimal with fraction digits f (padded
\* with zeros), in cents.  The price pool holds no value whose third and
\* later decimals are exactly one half (there the result depends on the
\* binary float nearest to the decimal).
Round2Padded(ip, f) ==
  DigitsVal(ip) * 100 + DigitVal(f[1]) * 10 + DigitVal(f[2])
    + (IF \/ DigitVal(f[3]) > 5
          \/ DigitVal(f[3]) = 5 /\ \E i \in 4..Len(f) : f[i] # "0"
       THEN 1 ELSE 0)

Round2(ip, fp) == Round2Padded(ip, fp \o <<"0", "0", "0">>)

\* A price check without the test for a negative value.
PriceOfUnsigned(f) ==
  IF ~f.ok THEN [ok |-> FALSE, val |-> 0, err |-> "price not a number"]
  ELSE IF f.inf
    THEN [ok |-> FALSE, val |-> 0, err |-> "price not finite"]
  ELSE [ok |-> TRUE, val |-> Round2(f.ip, f.fp), err |-> ""]

\* normalize_price from the float() on: val < 0, then isinf(val), then
\* round(val, 2).
PriceOf(f) ==
  IF ~f.ok THEN [ok |-> FALSE, val |-> 0, err |-> "price not a number"]
  ELSE IF /\ f.neg
          /\ \/ f.inf
             \/ ~(/\ \A i \in 1..Len(f.ip) : f.ip[i] = "0"
                  /\ \A i \in 1..Len(f.fp) : f.fp[i] = "0")
    THEN [ok |-> FALSE, val |-> 0, err |-> "price negative"]
  ELSE IF f.inf
    THEN [ok |-> FALSE, val |-> 0, err |-> "price not finite"]
  ELSE [ok |-> TRUE, val |-> Round2(f.ip, f.fp), err |-> ""]

\* normalize_price after its first line, s = normalize_str(p)
PriceVerdict(s) ==
  IF s = <<>> THEN [ok |-> FALSE, val |-> 0, err |-> "price empty"]
  ELSE PriceOf(ParseFloat(RemoveChars(s, PriceStrip)))

\* normalize_price: (ok, value, reason); the value is in cents.
normalize_price(p) == PriceVerdict(normalize_str(Str(p)))

\* build_doc: the record of a valid row; both texts are normalized again.
build_doc(raw_sku, raw_pc, price_val) ==
  [sku |-> normalize_str(Str(raw_sku)),
   postCode |-> normalize_str(Str(raw_pc)),
   price |-> price_val]

(***************************************************************************)
(* Rows as dictionaries: a sequence of <<key, value>> pairs in insertion   *)
(* order, as a Python dict keeps them.                                     *)
(***************************************************************************)
HasKey(d, k) == \E i \in 1..Len(d) : d[i][1] = k

\* d[k], for a key d holds
Lookup(d, k) == d[CHOOSE i \in 1..Len(d) : d[i][1] = k][2]

\* d[k] = v: an existing key keeps its place
DictPut(d, k, v) ==
  IF HasKey(d, k)
  THEN [i \in 1..Len(d) |-> IF d[i][1] = k THEN <<k, v>> ELSE d[i]]
  ELSE Append(d, <<k, v>>)

\* The key csv.DictReader files surplus cells under (restkey = None).
RestKey == "<None>"

\* (k or "").strip().lower() on the header names and JSON keys of the model
StripLower(k) ==
  CASE k = RestKey -> ""
    [] k \in {"SKU", " sku ", "Sku"} -> "sku"
    [] k \in {"PostCode", "postCode", " PostCode "} -> "postcode"
    [] k \in {"Price", " PRICE"} -> "price"
    [] k \in {"productCode", "ProductCode"} -> "productcode"
    [] k \in {"unitPrice", "UnitPrice"} -> "unitprice"
    [] k \in {"Zip", " zip "} -> "zip"
    [] k \in {"Amount"} -> "amount"
    [] k \in {"Product Code"} -> "product code"
    [] k \in {"Product ID"} -> "product id"
    [] k \in {"Name"} -> "name"
    [] OTHER -> k

RECURSIVE LowerFrom(_, _)
LowerFrom(d, acc) ==
  IF d = <<>> THEN acc
  ELSE LowerFrom(Tail(d), DictPut(acc, StripLower(Head(d)[1]), Head(d)[2]))

\* _lower_keys: the row under its stripped, lower-cased keys
lower_keys(d) == LowerFrom(d, <<>>)

CSV_FIELD_ALIASES ==
  [sku |-> <<"sku", "productcode", "productCode", "product_code",
             "product id", "productid">>,
   postCode |-> <<"postcode", "postCode", "post_code", "post code",
                  "zip", "zip_code">>,
   price |-> <<"price", "unit_price", "unitPrice", "unitprice",
               "unit price", "amount">>]

LogicalFields == <<"sku", "postCode", "price">>

\* field_from_row: the value under the first alias the row holds, else None
field_from_row(row, key) ==
  LET al == CSV_FIELD_ALIASES[key]
      hit == {i \in 1..Len(al) : HasKey(row, StripLower(al[i]))}
  IN IF hit = {} THEN None
     ELSE Lookup(row, StripLower(al[CHOOSE i \in hit : \A j \in hit : i <= j]))

RECURSIVE ZipFrom(_, _, _)
ZipFrom(names, cells, acc) ==
  IF names = <<>> \/ cells = <<>> THEN acc
  ELSE ZipFrom(Tail(names), Tail(cells),
               DictPut(acc, Head(names), Str(Head(cells))))

RECURSIVE RestvalFrom(_, _)
RestvalFrom(names, acc) ==
  IF names = <<>> THEN acc
  ELSE RestvalFrom(Tail(names), DictPut(acc, Head(names), None))

\* The dict csv.DictReader yields for a line's cells: dict(zip(fieldnames,
\* cells)), surplus cells under restkey, missing cells as restval (None).
DictReaderRow(names, cells) ==
  LET d == ZipFrom(names, cells, <<>>) IN
  IF Len(names) < Len(cells)
    THEN DictPut(d, RestKey, [t |-> "list", s |-> <<>>])
  ELSE IF Len(names) > Len(cells)
    THEN RestvalFrom(SubSeq(names, Len(cells) + 1, Len(names)), d)
  ELSE d

(***************************************************************************)
(* Messages.                                                               *)
(***************************************************************************)
RECURSIVE Join(_, _)
\* sep.join(parts)
Join(parts, sep) ==
  IF parts = <<>> THEN ""
  ELSE IF Len(parts) = 1 THEN parts[1]
  ELSE parts[1] \o sep \o Join(Tail(parts), sep)

CtxHeader == <<"h", "e", "a", "d", "e", "r">>
CtxFile == <<"f", "i", "l", "e">>

\* f"sku={raw_sku}, postCode={raw_pc}"
RowContext(raw_sku, raw_pc) ==
  <<"s", "k", "u", "=">> \o raw_sku
    \o <<",", " ", "p", "o", "s", "t", "C", "o", "d", "e", "=">> \o raw_pc

DuplicateMsg == "Duplicate id within file"

\* f"{raw_sku}|{raw_pc}"
DocId(raw_sku, raw_pc) == raw_sku \o <<"|">> \o raw_pc

(***************************************************************************)
(* The row validator.  acc holds the locals valid_docs, errors, seen_ids.  *)
(***************************************************************************)
\* valid_docs, errors, seen_ids = [], [], set(): the locals a call creates.
EmptyAcc == [valid_docs |-> <<>>, errors |-> <<>>, seen_ids |-> {}]

ErrorEntry(row, context, error) ==
  [row |-> row, context |-> context, error |-> error]

\* A reason list that adds a validator's reason for an empty raw text too.
ReasonsUnguarded(raw_sku, raw_pc, raw_price, s, p, n) ==
  (IF raw_sku = <<>> THEN <<"sku missing">> ELSE <<>>)
     \o (IF raw_pc = <<>> THEN <<"postCode missing">> ELSE <<>>)
     \o (IF raw_price = <<>> THEN <<"price missing">> ELSE <<>>)
     \o (IF ~s.ok THEN <<s.err>> ELSE <<>>)
     \o (IF ~p.ok THEN <<p.err>> ELSE <<>>)
     \o (IF ~n.ok THEN <<n.err>> ELSE <<>>)

\* The reason list of a row from the three verdicts: "<field> missing" for
\* an empty raw text, else the validator's reason for an invalid one.
Reasons(raw_sku, raw_pc, raw_price, s, p, n) ==
  (IF raw_sku = <<>> THEN <<"sku missing">> ELSE <<>>)
     \o (IF raw_pc = <<>> THEN <<"postCode missing">> ELSE <<>>)
     \o (IF raw_price = <<>> THEN <<"price missing">> ELSE <<>>)
     \o (IF raw_sku # <<>> /\ ~s.ok THEN <<s.err>> ELSE <<>>)
     \o (IF raw_pc # <<>> /\ ~p.ok THEN <<p.err>> ELSE <<>>)
     \o (IF raw_price # <<>> /\ ~n.ok THEN <<n.err>> ELSE <<>>)

RowReasons(raw_sku, raw_pc, raw_price) ==
  Reasons(raw_sku, raw_pc, raw_price, is_valid_sku(raw_sku),
          is_valid_postcode(raw_pc), normalize_price(raw_price))

\* A membership test that finds no id.
SeenBeforeNever(seen_ids, doc_id) == doc_id \in {}

\* Whether doc_id counts as already seen.
SeenBefore(seen_ids, doc_id) == doc_id \in seen_ids

\* A row outcome that puts a new record in front of valid_docs.
OutcomePrepend(acc, raw_sku, raw_pc, raw_price, idx, errs) ==
  IF errs # <<>>
    THEN [acc EXCEPT !.errors =
            Append(@, ErrorEntry(idx, RowContext(raw_sku, raw_pc),
                                 Join(errs, "; ")))]
  ELSE IF SeenBefore(acc.seen_ids, DocId(raw_sku, raw_pc))
    THEN [acc EXCEPT !.errors =
            Append(@, ErrorEntry(idx, RowContext(raw_sku, raw_pc),
                                 DuplicateMsg))]
  ELSE [acc EXCEPT
          !.seen_ids = @ \cup {DocId(raw_sku, raw_pc)},
          !.valid_docs =
            <<build_doc(raw_sku, raw_pc, normalize_price(raw_price).val)>>
              \o @]

\* A row past the empty-row test, with its reason list errs: one error
\* entry for its reasons, else one duplicate error, else one record and its
\* id marked seen.
Outcome(acc, raw_sku, raw_pc, raw_price, idx, errs) ==
  IF errs # <<>>
    THEN [acc EXCEPT !.errors =
            Append(@, ErrorEntry(idx, RowContext(raw_sku, raw_pc),
                                 Join(errs, "; ")))]
  ELSE IF SeenBefore(acc.seen_ids, DocId(raw_sku, raw_pc))
    THEN [acc EXCEPT !.errors =
            Append(@, ErrorEntry(idx, RowContext(raw_sku, raw_pc),
                                 DuplicateMsg))]
  ELSE [acc EXCEPT
          !.seen_ids = @ \cup {DocId(raw_sku, raw_pc)},
          !.valid_docs =
            Append(@, build_doc(raw_sku, raw_pc,
                                normalize_price(raw_price).val))]

CheckRow(acc, raw_sku, raw_pc, raw_price, idx) ==
  Outcome(acc, raw_sku, raw_pc, raw_price, idx,
          RowReasons(raw_sku, raw_pc, raw_price))

\* The three resolved raw texts of a row (under lower-cased keys).
RawOf(row) ==
  [sku |-> normalize_str(field_from_row(row, "sku")),
   postCode |-> normalize_str(field_from_row(row, "postCode")),
   price |-> normalize_str(field_from_row(row, "price"))]

\* Whether the CSV loop skips the row: all three raw texts empty.
SkipsRow(raw) == raw.sku = <<>> /\ raw.postCode = <<>> /\ raw.price = <<>>

\* A loop body without the empty-row test.
StepRawNoSkip(acc, raw, idx) ==
  CheckRow(acc, raw.sku, raw.postCode, raw.price, idx)

\* The loop body of _validate_from_reader from the empty-row test on.
StepRaw(acc, raw, idx) ==
  IF SkipsRow(raw) THEN acc
  ELSE CheckRow(acc, raw.sku, raw.postCode, raw.price, idx)

\* One iteration of the loop of _validate_from_reader over a reader row.
RowStep(acc, row0, idx) == StepRaw(acc, RawOf(lower_keys(row0)), idx)

\* validate_obj from its error list on.
ObjRaw(acc, raw, idx) == CheckRow(acc, raw.sku, raw.postCode, raw.price, idx)

\* validate_json.validate_obj: one JSON object.
validate_obj(acc, obj, idx_for_report) ==
  ObjRaw(acc, RawOf(lower_keys(obj)), idx_for_report)

\* The logical fields with no alias among the lower-cased fieldnames.
MissingMin(fieldnames_lc) ==
  SelectSeq(LogicalFields,
            LAMBDA key :
              ~\E i \in 1..Len(CSV_FIELD_ALIASES[key]) :
                 \E j \in 1..Len(fieldnames_lc) :
                   fieldnames_lc[j] = StripLower(CSV_FIELD_ALIASES[key][i]))

\* The header error for the lower-cased fieldnames lc and the logical
\* fields missing_min they lack, or <<>>.
HeaderVerdict(lc, missing_min) ==
  IF lc = <<>>
    THEN <<ErrorEntry(1, CtxHeader, "Missing header row")>>
  ELSE IF missing_min # <<>>
    THEN <<ErrorEntry(1, CtxHeader,
                      "Missing required columns: " \o Join(missing_min, ", "))>>
  ELSE <<>>

LowerNames(raw_fieldnames) ==
  [i \in 1..Len(raw_fieldnames) |-> StripLower(raw_fieldnames[i])]

\* Header checks that stop at the missing header row and never look for the
\* required columns.
HeaderErrorsRowOnly(raw_fieldnames) ==
  HeaderVerdict(LowerNames(raw_fieldnames), <<>>)

\* The header checks of _validate_from_reader: <<>> when the rows are to be
\* read, else the single header error the function returns with.
HeaderErrors(raw_fieldnames) ==
  HeaderVerdict(LowerNames(raw_fieldnames),
                MissingMin(LowerNames(raw_fieldnames)))

\* What validate_csv returns when open() or a read raises.
ReadErrorResult ==
  [state |-> "returned", records |-> <<>>,
   errors |-> <<ErrorEntry(0, CtxFile, "Read error")>>, warnings |-> <<>>]

\* What validate_pasted_csv_text returns for a text with no non-blank line.
NoContentResult ==
  [state |-> "returned", records |-> <<>>,
   errors |-> <<ErrorEntry(1, CtxHeader, "No content")>>, warnings |-> <<>>]

Returned(docs, errs, warns) ==
  [state |-> "returned", records |-> docs, errors |-> errs, warnings |-> warns]

NoResult ==
  [state |-> "none", records |-> <<>>, errors |-> <<>>, warnings |-> <<>>]

\* An exception that leaves the validator.
Raised ==
  [state |-> "raised", records |-> <<>>, errors |-> <<>>, warnings |-> <<>>]

WarnNotArray ==
  "Top-level JSON is not an array; falling back to NDJSON parser."
WarnNdjson ==
  "JSON is not an array; attempting NDJSON (one JSON object per line)."

\* A fallback that records its warning only after a failed parse.
FallbackWarningOnError(outcome) ==
  IF outcome = "nonarray" THEN <<>> ELSE <<WarnNdjson>>

\* The warning validate_json records before its line-by-line pass.
FallbackWarning(outcome) ==
  IF outcome = "nonarray" THEN <<WarnNotArray>> ELSE <<WarnNdjson>>

RECURSIVE ReaderLoop(_, _, _, _)
\* The loop of _validate_from_reader over all the data lines of a source.
ReaderLoop(acc, names, lines, n) ==
  IF lines = <<>> THEN acc
  ELSE ReaderLoop(RowStep(acc, DictReaderRow(names, Head(lines)), n),
                  names, Tail(lines), n + 1)

ReturnAcc(acc) == Returned(acc.valid_docs, acc.errors, <<>>)

ReaderResult(h, lines, herr) ==
  IF herr # <<>> THEN Returned(<<>>, herr, <<>>)
  ELSE ReturnAcc(ReaderLoop(EmptyAcc, h, lines, 2))

\* _validate_from_reader on a source with header line h and these data lines.
validate_from_reader(h, lines) == ReaderResult(h, lines, HeaderErrors(h))

RECURSIVE ArrayLoop(_, _, _)
\* The loop of validate_json over the elements of a top-level array.
ArrayLoop(acc, items, n) ==
  IF items = <<>> THEN acc
  ELSE ArrayLoop(
         IF Head(items).isobj THEN validate_obj(acc, Head(items).d, n)
         ELSE [acc EXCEPT !.errors =
                 Append(@, ErrorEntry(n, <<>>,
                                      "Each item must be a JSON object"))],
         Tail(items), n + 1)

\* validate_json on a file that holds a JSON array of these items.
validate_json_array(items) == ReturnAcc(ArrayLoop(EmptyAcc, items, 1))

RECURSIVE LineLoop(_, _, _)
\* The loop of validate_json's line-by-line pass over the lines of a file.
LineLoop(acc, lines, n) ==
  IF lines = <<>> THEN acc
  ELSE LineLoop(
         CASE Head(lines).kind = "blank" -> acc
           [] Head(lines).kind = "invalid" ->
                [acc EXCEPT !.errors =
                   Append(@, ErrorEntry(n, <<>>, "Invalid JSON"))]
           [] Head(lines).kind = "json" /\ ~Head(lines).item.isobj ->
                [acc EXCEPT !.errors =
                   Append(@, ErrorEntry(n, <<>>, "Line is not a JSON object"))]
           [] Head(lines).kind = "json" /\ Head(lines).item.isobj ->
                validate_obj(acc, Head(lines).item.d, n),
         Tail(lines), n + 1)

LinesResult(acc, warns) == Returned(acc.valid_docs, acc.errors, warns)

\* validate_json on a file whose whole-file load ends as outcome (not an
\* array, or a decode error) and whose lines, all read, are these.
validate_json_lines(outcome, lines) ==
  LinesResult(LineLoop(EmptyAcc, lines, 1), FallbackWarning(outcome))

(***************************************************************************)
(* The inputs of the validation runs.                                      *)
(***************************************************************************)
cEmpty == <<>>
cA == <<"A">>
cB == <<"B">>
\* " "A" ": one normalize_str leaves "A" in quotes, a second one leaves A
cQuotedA == <<Quote, " ", Quote, "A", Quote, " ", Quote>>
cPaddedA == <<" ", "A", " ">>
cBadSku == <<"A", "|", "B">>
c2000 == <<"2", "0", "0", "0">>
c204 == <<"2", "0", "4">>
cBlank == <<" ">>
c5 == <<"5">>
cDollar7 == <<"$", "7">>
cMinus5 == <<"-", "5">>
cNaN == <<"x">>
c1239 == <<"1", ".", "2", "3", "9">>
cMinus0 == <<"-", "0">>
cInf == <<"i", "n", "f">>

\* The cells of a CSV data line, in column order.
RowCells ==
  { <<cA, c2000, c5>>,
    <<cA, c2000, cDollar7>>,
    <<cA, c2000, cMinus5>>,
    <<cQuotedA, c2000, c5>>,
    <<cPaddedA, c2000, cMinus0>>,
    <<cB, c2000, c1239>>,
    <<cEmpty, cBlank, cEmpty>>,
    <<cBadSku, c204, cEmpty>>,
    <<cA>> }

\* Header lines that name all three logical fields.
GoodHeaders ==
  { <<"SKU", "PostCode", "Price">>,
    <<" sku ", "Zip", "Amount">>,
    <<"Product ID", "Zip", "Price">>,
    <<"SKU", "Zip", "unitPrice", "Product ID">> }

\* The first lines of the pasted texts.
PastedHeaders == { <<"SKU", "PostCode", "Price">>, <<"SKU", "PostCode">> }

\* Header lines that miss a logical field.
BadHeaders ==
  { <<"SKU", "PostCode">>,
    <<"Name", "Zip", "Price">>,
    <<"Product Code", "Zip", "Price">>,
    <<"Name">> }

\* A JSON value that is an object, and one that is not.
Obj(d) == [isobj |-> TRUE, d |-> d]
NonObj == [isobj |-> FALSE, d |-> <<>>]

ObjOf(sku, pc, price) ==
  Obj(<< <<"sku", sku>>, <<"postCode", pc>>, <<"price", price>> >>)

JsonItems ==
  { ObjOf(Str(cA), Str(c2000), Str(c5)),
    ObjOf(Str(cA), Str(c2000), Num(<<"7">>)),
    ObjOf(Str(cQuotedA), Str(c2000), Num(c5)),
    ObjOf(Str(cB), Num(c2000), Str(cNaN)),
    ObjOf(Str(cB), Str(c2000), Str(cInf)),
    Obj(<<>>),
    Obj(<< <<"SKU", Str(cA)>>, <<"Zip", Str(c2000)>> >>),
    NonObj }

\* The lines of a file read as NDJSON: a JSON value, a blank line, or a line
\* json.loads rejects.
Line(kind, item) == [kind |-> kind, item |-> item]
NdLines ==
  { Line("json", ObjOf(Str(cA), Str(c2000), Str(c5))),
    Line("json", ObjOf(Str(cA), Str(c2000), Num(<<"7">>))),
    Line("json", Obj(<<>>)),
    Line("json", NonObj),
    Line("blank", NonObj),
    Line("invalid", NonObj) }

\* How the open() and json.load of the whole file end: a list, another JSON
\* value, json.JSONDecodeError, or an OSError or UnicodeDecodeError.
LoadOutcomes == {"array", "nonarray", "decodeerror", "ioerror"}

(***************************************************************************)
(* State of a validation run.                                              *)
(***************************************************************************)
VARIABLES
  pc,          \* where the run is: idle, rows, array, ndjson, done
  kind,        \* the entry point: csv, pasted, json
  fieldnames,  \* reader.fieldnames
  idx,         \* the loop's row number
  valid_docs,  \* the local valid_docs
  errors,      \* the local errors
  warnings,    \* the local warnings
  seen_ids,    \* the local seen_ids
  ret,         \* what the call returned, or that it raised
  input,       \* history: the rows, items and lines read so far, each as
               \* read (src) and with the raw_sku, raw_pc and raw_price
               \* resolved from it
  origin,      \* history: the row number each record of valid_docs came from
  io_failed,   \* history: an open() or a read of the file raised
  load,        \* history: how validate_json's whole-file load ended
  line_pass,   \* history: the line-by-line pass of validate_json was entered
  again        \* what a second call on the same input returned

vvars == <<pc, kind, fieldnames, idx, valid_docs, errors, warnings, seen_ids,
           ret, input, origin, io_failed, load, line_pass, again>>

\* The variables no step of the reader loop changes.
hist == <<io_failed, load, line_pass, again>>

(***************************************************************************)
(* State of the application (App) and what an export_files call did.       *)
(***************************************************************************)
VARIABLES
  file_path,        \* self.file_path: the file load_file selected, or NoFile
  last_valid_docs,  \* self.last_valid_docs
  last_errors,      \* self.last_errors
  last_warnings,    \* self.last_warnings
  opts,             \* the export settings the running export_files read
  writes,           \* history: the files the export_files call has written
  call_end,         \* how the call ended: none, completed, refused, raised
  fail_at,          \* history: which write of the call raised (0: none)
  dialogs           \* the message boxes the call showed

evars == <<file_path, last_valid_docs, last_errors, last_warnings, opts,
           writes, call_end, fail_at, dialogs>>

vars == <<vvars, evars>>

Acc == [valid_docs |-> valid_docs, errors |-> errors, seen_ids |-> seen_ids]

InitV ==
  /\ pc = "idle"
  /\ kind = "none"
  /\ fieldnames = <<>>
  /\ idx = 0
  /\ valid_docs = <<>>
  /\ errors = <<>>
  /\ warnings = <<>>
  /\ seen_ids = {}
  /\ ret = NoResult
  /\ input = <<>>
  /\ origin = <<>>
  /\ io_failed = FALSE
  /\ load = "none"
  /\ line_pass = FALSE
  /\ again = NoResult

\* The locals after one row: acc2, and the record's row number noted.
SetAcc(acc2, n) ==
  /\ valid_docs' = acc2.valid_docs
  /\ errors' = acc2.errors
  /\ seen_ids' = acc2.seen_ids
  /\ origin' = IF Len(acc2.valid_docs) > Len(valid_docs)
               THEN Append(origin, n) ELSE origin

\* return valid_docs, errors, warnings
Return(docs, errs, warns) ==
  /\ ret' = Returned(docs, errs, warns)
  /\ pc' = "done"

\* _validate_from_reader up to its loop: the header checks.
StartReader(h) ==
  /\ fieldnames' = h
  /\ errors' = HeaderErrors(h)
  /\ IF errors' # <<>>
     THEN /\ Return(<<>>, errors', <<>>)
          /\ UNCHANGED idx
     ELSE /\ pc' = "rows"
          /\ idx' = 2
          /\ UNCHANGED ret
  /\ UNCHANGED <<valid_docs, warnings, seen_ids, input, origin, hist>>

\* validate_csv: open() or the read of the header line raises.
ValidateCsvFails ==
  /\ pc = "idle"
  /\ kind' = "csv"
  /\ ret' = ReadErrorResult
  /\ pc' = "done"
  /\ io_failed' = TRUE
  /\ UNCHANGED <<fieldnames, idx, valid_docs, errors, warnings, seen_ids,
                 input, origin, load, line_pass, again>>

\* validate_csv on a file whose first line is h (<<>>: no header line).
ValidateCsv(h) ==
  /\ pc = "idle"
  /\ kind' = "csv"
  /\ StartReader(h)

\* validate_pasted_csv_text on a text with no non-blank line.
ValidatePastedEmpty ==
  /\ pc = "idle"
  /\ kind' = "pasted"
  /\ ret' = NoContentResult
  /\ pc' = "done"
  /\ UNCHANGED <<fieldnames, idx, valid_docs, errors, warnings, seen_ids,
                 input, origin, hist>>

\* validate_pasted_csv_text on a text whose first non-blank line is h.
ValidatePasted(h) ==
  /\ pc = "idle"
  /\ kind' = "pasted"
  /\ StartReader(h)

\* One iteration of the reader loop on a data line with these cells.
ReadRow(cells) ==
  /\ pc = "rows"
  /\ idx - 2 < MaxRows
  /\ input' = Append(input,
                     [row |-> idx, kind |-> "row", src |-> cells,
                      d |-> DictReaderRow(fieldnames, cells),
                      raw |-> RawOf(lower_keys(DictReaderRow(fieldnames,
                                                             cells)))])
  /\ SetAcc(RowStep(Acc, input'[Len(input')].d, idx), idx)
  /\ idx' = idx + 1
  /\ UNCHANGED <<pc, kind, fieldnames, warnings, ret, hist>>

\* The reader is exhausted: _validate_from_reader returns its lists.
ReaderEof ==
  /\ pc = "rows"
  /\ Return(valid_docs, errors, warnings)
  /\ UNCHANGED <<kind, fieldnames, idx, valid_docs, errors, warnings,
                 seen_ids, input, origin, hist>>

\* A read of the file raises inside the loop: validate_csv's except clause.
ReaderRaises ==
  /\ pc = "rows"
  /\ kind = "csv"
  /\ ret' = ReadErrorResult
  /\ pc' = "done"
  /\ io_failed' = TRUE
  /\ UNCHANGED <<kind, fieldnames, idx, valid_docs, errors, warnings,
                 seen_ids, input, origin, load, line_pass, again>>

\* validate_json up to its loops: the first try block (open() and json.load
\* of the whole file) and what follows from how it ends.
ValidateJson(outcome) ==
  /\ pc = "idle"
  /\ kind' = "json"
  /\ load' = outcome
  /\ CASE outcome = "array" ->
            /\ pc' = "array"
            /\ idx' = 1
            /\ UNCHANGED <<warnings, ret, io_failed, line_pass>>
       [] outcome = "nonarray" ->
            /\ warnings' = warnings \o FallbackWarning(outcome)
            /\ pc' = "ndjson"
            /\ line_pass' = TRUE
            /\ idx' = 1
            /\ UNCHANGED <<ret, io_failed>>
       [] outcome = "decodeerror" ->
            /\ warnings' = warnings \o FallbackWarning(outcome)
            /\ pc' = "ndjson"
            /\ line_pass' = TRUE
            /\ idx' = 1
            /\ UNCHANGED <<ret, io_failed>>
       [] outcome = "ioerror" ->
            /\ ret' = Raised
            /\ pc' = "done"
            /\ io_failed' = TRUE
            /\ UNCHANGED <<warnings, idx, line_pass>>
  /\ UNCHANGED <<fieldnames, valid_docs, errors, seen_ids, input, origin,
                 again>>

\* One element of the top-level array.
ArrayItem(item) ==
  /\ pc = "array"
  /\ idx - 1 < MaxRows
  /\ IF ~item.isobj
     THEN SetAcc([Acc EXCEPT !.errors =
                    Append(@, ErrorEntry(idx, <<>>,
                                         "Each item must be a JSON object"))],
                 idx)
     ELSE SetAcc(validate_obj(Acc, item.d, idx), idx)
  /\ input' = Append(input,
                     [row |-> idx, src |-> item,
                      kind |-> IF item.isobj THEN "row" ELSE "nonobj",
                      d |-> item.d,
                      raw |-> RawOf(lower_keys(item.d))])
  /\ idx' = idx + 1
  /\ UNCHANGED <<pc, kind, fieldnames, warnings, ret, hist>>

\* The array is exhausted.
ArrayEnd ==
  /\ pc = "array"
  /\ Return(valid_docs, errors, warnings)
  /\ UNCHANGED <<kind, fieldnames, idx, valid_docs, errors, warnings,
                 seen_ids, input, origin, hist>>

\* One line of the line-by-line pass.
NdjsonLine(ln) ==
  /\ pc = "ndjson"
  /\ idx - 1 < MaxRows
  /\ CASE ln.kind = "blank" ->
            UNCHANGED <<valid_docs, errors, seen_ids, origin>>
       [] ln.kind = "invalid" ->
            SetAcc([Acc EXCEPT !.errors =
                      Append(@, ErrorEntry(idx, <<>>, "Invalid JSON"))], idx)
       [] ln.kind = "json" /\ ~ln.item.isobj ->
            SetAcc([Acc EXCEPT !.errors =
                      Append(@, ErrorEntry(idx, <<>>,
                                           "Line is not a JSON object"))], idx)
       [] ln.kind = "json" /\ ln.item.isobj ->
            SetAcc(validate_obj(Acc, ln.item.d, idx), idx)
  /\ input' = Append(input,
                     [row |-> idx, src |-> ln,
                      kind |-> IF ln.kind = "json"
                               THEN (IF ln.item.isobj THEN "row" ELSE "nonobj")
                               ELSE ln.kind,
                      d |-> ln.item.d,
                      raw |-> RawOf(lower_keys(ln.item.d))])
  /\ idx' = idx + 1
  /\ UNCHANGED <<pc, kind, fieldnames, warnings, ret, hist>>

\* The file's lines are exhausted.
NdjsonEof ==
  /\ pc = "ndjson"
  /\ Return(valid_docs, errors, warnings)
  /\ UNCHANGED <<kind, fieldnames, idx, valid_docs, errors, warnings,
                 seen_ids, input, origin, hist>>

\* open() or a read raises in the line-by-line pass: the except clause adds
\* a row-0 error and the lists gathered so far are returned.
NdjsonRaises ==
  /\ pc = "ndjson"
  /\ errors' = Append(errors,
                      ErrorEntry(0, <<>>, "Error reading file line-by-line"))
  /\ Return(valid_docs, errors', warnings)
  /\ io_failed' = TRUE
  /\ UNCHANGED <<kind, fieldnames, idx, valid_docs, warnings, seen_ids,
                 input, origin, load, line_pass, again>>

\* The rows, items or lines the first call read.
Sources == [i \in 1..Len(input) |-> input[i].src]

\* A reader call whose seen_ids is the set the first call left behind.
SecondCallKeepsSeen(k, names, outcome, srcs) ==
  IF k = "pasted" /\ names = <<>> THEN NoContentResult
  ELSE IF k \in {"csv", "pasted"}
    THEN (IF HeaderErrors(names) # <<>>
          THEN Returned(<<>>, HeaderErrors(names), <<>>)
          ELSE ReturnAcc(ReaderLoop([EmptyAcc EXCEPT !.seen_ids = seen_ids],
                                    names, srcs, 2)))
  ELSE IF outcome = "array" THEN validate_json_array(srcs)
  ELSE validate_json_lines(outcome, srcs)

\* What the entry point of the first call returns for the same input.
SecondCall(k, names, outcome, srcs) ==
  IF k = "pasted" /\ names = <<>> THEN NoContentResult
  ELSE IF k \in {"csv", "pasted"} THEN validate_from_reader(names, srcs)
  ELSE IF outcome = "array" THEN validate_json_array(srcs)
  ELSE validate_json_lines(outcome, srcs)

\* The same entry point is called once more, in the same process, on the
\* input the first call read to its end: the whole call.
ValidateAgain ==
  /\ pc = "done"
  /\ ~io_failed
  /\ again = NoResult
  /\ again' = SecondCall(kind, fieldnames, load, Sources)
  /\ UNCHANGED <<pc, kind, fieldnames, idx, valid_docs, errors, warnings,
                 seen_ids, ret, input, origin, io_failed, load, line_pass>>

NextV ==
  \/ ValidateCsvFails /\ UNCHANGED evars
  \/ \E h \in GoodHeaders \cup BadHeaders \cup {<<>>} : ValidateCsv(h) /\ UNCHANGED evars
  \/ ValidatePastedEmpty /\ UNCHANGED evars
  \/ \E h \in PastedHeaders : ValidatePasted(h) /\ UNCHANGED evars
  \/ \E cells \in RowCells : ReadRow(cells) /\ UNCHANGED evars
  \/ ReaderEof /\ UNCHANGED evars
  \/ ReaderRaises /\ UNCHANGED evars
  \/ \E outcome \in LoadOutcomes : ValidateJson(outcome) /\ UNCHANGED evars
  \/ \E item \in JsonItems : ArrayItem(item) /\ UNCHANGED evars
  \/ ArrayEnd /\ UNCHANGED evars
  \/ \E ln \in NdLines : NdjsonLine(ln) /\ UNCHANGED evars
  \/ NdjsonEof /\ UNCHANGED evars
  \/ NdjsonRaises /\ UNCHANGED evars
  \/ ValidateAgain /\ UNCHANGED evars

(***************************************************************************)
(* Export: numbers and names as text.                                      *)
(***************************************************************************)
\* Records of a pasted text or a file in one preview.
MaxPaste == 3
\* The largest rows-per-file setting tried.
MaxChunk == 2

DigitChar(n) ==
  CASE n = 0 -> "0" [] n = 1 -> "1" [] n = 2 -> "2" [] n = 3 -> "3"
    [] n = 4 -> "4" [] n = 5 -> "5" [] n = 6 -> "6" [] n = 7 -> "7"
    [] n = 8 -> "8" [] n = 9 -> "9"

RECURSIVE NatStr(_)
\* str(n) of a natural number
NatStr(n) ==
  IF n < 10 THEN <<DigitChar(n)>>
  ELSE NatStr(n \div 10) \o <<DigitChar(n % 10)>>

\* f"{n:03d}"
Pad3(n) ==
  IF Len(NatStr(n)) < 3
  THEN Repeat("0", 3 - Len(NatStr(n))) \o NatStr(n)
  ELSE NatStr(n)

\* f"part{(i+1):03d}" for the 0-based chunk index i
BatchId(i) == <<"p", "a", "r", "t">> \o Pad3(i + 1)

\* str(price) of a price held in cents: "5.0", "5.5", "5.25"
PriceStr(cents) ==
  NatStr(cents \div 100) \o <<".">>
    \o (IF cents % 10 = 0 THEN <<DigitChar((cents % 100) \div 10)>>
        ELSE <<DigitChar((cents % 100) \div 10), DigitChar(cents % 10)>>)

\* str.lower() of one character
LowerChar(c) ==
  CASE c = "A" -> "a" [] c = "B" -> "b" [] c = "M" -> "m"
    [] c = "U" -> "u" [] c = "D" -> "d" [] OTHER -> c

\* base_name.lower().replace("-", "_").replace(" ", "_")
SnakeBase(base) ==
  [i \in 1..Len(base) |->
     IF LowerChar(base[i]) \in {"-", " "} THEN "_" ELSE LowerChar(base[i])]

cAll == <<"a", "l", "l">>
cGroup == <<"g", "r", "o", "u", "p">>
cUnk == <<"U", "N", "K">>
cCsv == <<"c", "s", "v">>
cJson == <<"j", "s", "o", "n">>
cPasted == <<"p", "a", "s", "t", "e", "d">>
\* self._ts(): one export runs within one second of the clock
cTs == <<"t", "s">>

\* The file load_file has selected: its base name and its extension.
File(base, ext) == [base |-> base, ext |-> ext]
NoFile == File(<<>>, "")

DefaultPattern ==
  <<"{base}", "_", "{batch}", "_", "{group}", "_", "{ts}", ".", "{ext}">>

\* The text pattern.format(**vals) puts for one piece of the pattern.
Piece(tok, base, batch, group, ts, ext) ==
  CASE tok = "{base}" -> base
    [] tok = "{batch}" -> batch
    [] tok = "{group}" -> (IF group # <<>> THEN group ELSE cAll)
    [] tok = "{ts}" -> ts
    [] tok = "{ext}" -> LStripSet(ext, {"."})
    [] OTHER -> <<tok>>

RECURSIVE FormatFrom(_, _, _, _, _, _)
FormatFrom(pattern, base, batch, group, ts, ext) ==
  IF pattern = <<>> THEN <<>>
  ELSE Piece(Head(pattern), base, batch, group, ts, ext)
         \o FormatFrom(Tail(pattern), base, batch, group, ts, ext)

\* _render_path: the file name under the export folder
render_path(pattern, base, batch, group, ts, ext) ==
  FormatFrom(IF pattern = <<>> THEN DefaultPattern ELSE pattern,
             base, batch, group, ts, ext)

\* _sanitize_group
GroupMaxLen == 80
sanitize_group(g) ==
  LET out == [i \in 1..Len(g) |->
                IF IsAlnum(g[i]) \/ g[i] \in {"-", "_", "."}
                THEN g[i] ELSE "_"]
  IN IF out # <<>>
     THEN SubSeq(out, 1, IF Len(out) < GroupMaxLen THEN Len(out)
                         ELSE GroupMaxLen)
     ELSE cUnk

(***************************************************************************)
(* Export: the rows and the files of one export_files call.                *)
(***************************************************************************)
\* A row of csv_rows: the postcode loses its leading zeros.
CsvRow(d) ==
  [postCode |-> IF d.postCode # <<>> THEN LStripSet(d.postCode, {"0"})
                ELSE <<>>,
   sku |-> d.sku, price |-> d.price]

\* A row of json_rows.
JsonRow(d) == [postCode |-> d.postCode, sku |-> d.sku, price |-> d.price]

\* One file written: its name, the labels it was rendered from, its rows.
FileWrite(path, batch, group, ext, rows) ==
  [path |-> path, batch |-> batch, group |-> group, ext |-> ext, rows |-> rows]

\* The files of one batch: the CSV file, then the JSON file.
BatchFiles(o, base, batch, group, csv_rows, json_rows) ==
  (IF o.csv
   THEN <<FileWrite(render_path(o.pattern, base, batch, group, cTs, cCsv),
                    batch, group, cCsv, csv_rows)>>
   ELSE <<>>)
  \o
  (IF o.json
   THEN <<FileWrite(render_path(o.pattern, base, batch, group, cTs, cJson),
                    batch, group, cJson, json_rows)>>
   ELSE <<>>)

\* _export_single
export_single(o, base, csv_rows, json_rows) ==
  BatchFiles(o, base, cAll, cAll, csv_rows, json_rows)

\* A part count that rounds down and so drops a last, shorter part.
PartsFloor(total, chunk_size) == total \div chunk_size

\* parts = (total + chunk_size - 1) // chunk_size
Parts(total, chunk_size) == (total + chunk_size - 1) \div chunk_size

\* The slice [start, end) of chunk i.
ChunkOf(rows, i, chunk_size) ==
  LET start == i * chunk_size
      end == IF (i + 1) * chunk_size < Len(rows) THEN (i + 1) * chunk_size
             ELSE Len(rows)
  IN SubSeq(rows, start + 1, end)

RECURSIVE RowsFrom(_, _, _, _, _, _, _)
RowsFrom(o, base, csv_rows, json_rows, chunk_size, i, parts) ==
  IF i >= parts THEN <<>>
  ELSE BatchFiles(o, base, BatchId(i), cAll,
                  ChunkOf(csv_rows, i, chunk_size),
                  ChunkOf(json_rows, i, chunk_size))
         \o RowsFrom(o, base, csv_rows, json_rows, chunk_size, i + 1, parts)

\* _export_by_rows
export_by_rows(o, base, csv_rows, json_rows, chunk_size) ==
  IF Len(csv_rows) = 0 THEN <<>>
  ELSE RowsFrom(o, base, csv_rows, json_rows, chunk_size, 0,
                Parts(Len(csv_rows), chunk_size))

\* key_for_json, then (... or "UNK").strip() or "UNK"
GroupKey(key_lower, j) ==
  LET k == IF key_lower \in {"postcode", "post_code", "post code"}
             THEN (IF j.postCode # <<>> THEN j.postCode ELSE cUnk)
           ELSE IF key_lower = "sku"
             THEN (IF j.sku # <<>> THEN j.sku ELSE cUnk)
           ELSE IF key_lower = "price" THEN PriceStr(j.price)
           ELSE cUnk
  IN IF StripSet(k, Whitespace) # <<>> THEN StripSet(k, Whitespace) ELSE cUnk

RECURSIVE GroupOrder(_, _, _)
\* The group values in the order the rows first show them.
GroupOrder(key_lower, json_rows, acc) ==
  IF json_rows = <<>> THEN acc
  ELSE LET g == GroupKey(key_lower, Head(json_rows)) IN
       GroupOrder(key_lower, Tail(json_rows),
                  IF \E i \in 1..Len(acc) : acc[i] = g THEN acc
                  ELSE Append(acc, g))

\* The indices of the rows of group g.
Members(key_lower, json_rows, g) ==
  {i \in 1..Len(json_rows) : GroupKey(key_lower, json_rows[i]) = g}

RECURSIVE Pick(_, _, _)
\* The rows of q at the indices idxs, in order, from index i on.
Pick(q, idxs, i) ==
  IF i > Len(q) THEN <<>>
  ELSE (IF i \in idxs THEN <<q[i]>> ELSE <<>>) \o Pick(q, idxs, i + 1)

RECURSIVE GroupsFrom(_, _, _, _, _, _)
GroupsFrom(o, base, csv_rows, json_rows, key_lower, groups) ==
  IF groups = <<>> THEN <<>>
  ELSE LET m == Members(key_lower, json_rows, Head(groups)) IN
       BatchFiles(o, base, cGroup, sanitize_group(Head(groups)),
                  Pick(csv_rows, m, 1), Pick(json_rows, m, 1))
         \o GroupsFrom(o, base, csv_rows, json_rows, key_lower, Tail(groups))

\* _export_by_group
export_by_group(o, base, json_rows, csv_rows, group_col) ==
  LET key_lower == StripLower(group_col) IN
  GroupsFrom(o, base, csv_rows, json_rows, key_lower,
             GroupOrder(key_lower, json_rows, <<>>))

DefaultChunk == 1000

\* chunk = max(1, int(rows_per_file)), or 1000 when int() raises
ChunkSize(rows_per_file) ==
  IF ~rows_per_file.ok THEN DefaultChunk
  ELSE IF rows_per_file.n < 1 THEN 1 ELSE rows_per_file.n

cErrorsCsv == <<"_", "e", "r", "r", "o", "r", "s", ".", "c", "s", "v">>

\* The record files export_files writes for its settings, in order.
RecordFiles(o, base, docs) ==
  LET csv_rows == [i \in 1..Len(docs) |-> CsvRow(docs[i])]
      json_rows == [i \in 1..Len(docs) |-> JsonRow(docs[i])]
  IN
  IF o.enabled
  THEN IF o.mode = "rows"
       THEN export_by_rows(o, base, csv_rows, json_rows,
                           ChunkSize(o.rows_per_file))
       ELSE export_by_group(o, base, json_rows, csv_rows, o.group_col)
  ELSE export_single(o, base, csv_rows, json_rows)

\* The errors file: f"{base_name_snake}_errors.csv", one row per error.
ErrorsFile(base, errs) ==
  FileWrite(base \o cErrorsCsv, <<>>, <<>>, cCsv, errs)

\* base_name_snake of the export
ExportBase(path) == SnakeBase(IF path = NoFile THEN cPasted ELSE path.base)

(***************************************************************************)
(* The sources and the settings of the application.                        *)
(***************************************************************************)
cSlashSku == <<"A", "/", "1">>
cUnderSku == <<"A", "_", "1">>
c0200 == <<"0", "2", "0", "0">>

\* The data lines a pasted text is made of; a line pasted twice makes a
\* duplicate error.
PasteLines ==
  { <<cSlashSku, c2000, c5>>,
    <<cUnderSku, c2000, cDollar7>>,
    <<cB, c0200, c5>> }

SeqsUpTo(S, n) == UNION {[1..m -> S] : m \in 0..n}

\* The content of the paste box: empty, or a header line and data lines.
NoText == [header |-> <<>>, lines |-> <<>>]
Texts ==
  {NoText}
    \cup {[header |-> <<"SKU", "PostCode", "Price">>, lines |-> ls] :
            ls \in SeqsUpTo(PasteLines, MaxPaste)}

DataCsv == File(<<"M", "-", "D">>, ".csv")
BadJson == File(<<"b", " ", "x">>, ".json")
Files == {DataCsv, BadJson}

\* What the files hold.
FileHeader(path) == <<" sku ", "Zip", "Amount">>
FileLines(path) ==
  << <<cSlashSku, c2000, c5>>, <<cEmpty, c2000, c5>>,
     <<cB, c0200, cDollar7>>, <<cUnderSku, c2000, c5>> >>
FileItems(path) ==
  << ObjOf(Str(cA), Str(c204), None), NonObj >>

\* The rows-per-file entry: a number, or text int() rejects.
RowsPerFile(ok, n) == [ok |-> ok, n |-> n]

Settings(enabled, mode, rpf, group_col, csv, json) ==
  [enabled |-> enabled, mode |-> mode, rows_per_file |-> rpf,
   group_col |-> group_col, csv |-> csv, json |-> json, pattern |-> <<>>]

NoSettings == Settings(FALSE, "none", RowsPerFile(TRUE, 0), "", FALSE, FALSE)

GroupColumns == {"sku", "PostCode", "price", "state"}

\* The settings an export may read.  A setting the chosen mode does not
\* read is held at one value.
SettingsPool ==
  UNION {
    {Settings(FALSE, "rows", RowsPerFile(TRUE, 1), "postcode", c, j)}
      \cup {Settings(TRUE, "rows", RowsPerFile(TRUE, n), "postcode", c, j) :
              n \in 0..MaxChunk}
      \cup {Settings(TRUE, "rows", RowsPerFile(FALSE, 0), "postcode", c, j)}
      \cup {Settings(TRUE, "group", RowsPerFile(TRUE, 1), g, c, j) :
              g \in GroupColumns}
    : c \in BOOLEAN, j \in BOOLEAN }

ReadOutcomes == {"ok", "fail"}

\* validate_pasted_csv_text on each text of the paste box.
PastedResult ==
  [text \in Texts \ {NoText} |->
     validate_from_reader(text.header, text.lines)]

\* validate_csv and validate_json on each file, when its reads succeed.
FileResult ==
  [path \in Files |->
     IF path.ext = ".csv"
     THEN validate_from_reader(FileHeader(path), FileLines(path))
     ELSE validate_json_array(FileItems(path))]

\* The validation preview_data runs on the current source: the result, no
\* result (preview_data shows an error and returns), or an exception.
SourceResult(path, text, rd) ==
  IF path # NoFile
  THEN IF path.ext = ".csv"
         THEN (IF rd = "fail" THEN ReadErrorResult ELSE FileResult[path])
       ELSE IF path.ext = ".json"
         THEN (IF rd = "fail" THEN Raised ELSE FileResult[path])
       ELSE NoResult
  ELSE IF text = NoText THEN NoResult
       ELSE PastedResult[text]

MsgNoValidRows == "error: No valid rows to export (all invalid)."
MsgErrorFile == "warning: Failed to write error file"
MsgCompleted == "info: Export completed."

InitE ==
  /\ file_path = NoFile
  /\ last_valid_docs = <<>>
  /\ last_errors = <<>>
  /\ last_warnings = <<>>
  /\ opts = NoSettings
  /\ writes = <<>>
  /\ call_end = "none"
  /\ fail_at = 0
  /\ dialogs = <<>>

\* load_file: the user picks a file.
LoadFile(path) ==
  /\ call_end = "none"
  /\ file_path' = path
  /\ UNCHANGED <<last_valid_docs, last_errors, last_warnings, opts, writes,
                 call_end, fail_at, dialogs>>

\* preview_data: validate the current source and keep the result.
PreviewData(text, rd) ==
  /\ call_end = "none"
  /\ file_path # NoFile => text = NoText
  /\ file_path = NoFile => rd = "ok"
  /\ \E res \in {SourceResult(file_path, text, rd)} :
       IF res.state = "returned"
       THEN /\ last_valid_docs' = res.records
            /\ last_errors' = res.errors
            /\ last_warnings' = res.warnings
       ELSE UNCHANGED <<last_valid_docs, last_errors, last_warnings>>
  /\ UNCHANGED <<file_path, opts, writes, call_end, fail_at, dialogs>>

\* The writes of an export: the record files, then the errors file.
WritePlan(files, base, errs) ==
  files \o (IF errs # <<>> THEN <<ErrorsFile(base, errs)>> ELSE <<>>)

\* export_files from its second statement on, for the lists docs, errs and
\* warns it finds cached or has just previewed: the write numbered fail
\* raises (0: none does).
ExportCached(o, docs, errs, warns) ==
  /\ opts' = o
  /\ last_valid_docs' = docs
  /\ last_errors' = errs
  /\ last_warnings' = warns
  /\ IF docs = <<>> /\ errs # <<>>
     THEN /\ call_end' = "refused"
          /\ writes' = <<>>
          /\ fail_at' = 0
          /\ dialogs' = <<MsgNoValidRows>>
     ELSE \E files \in {RecordFiles(o, ExportBase(file_path), docs)} :
          \E plan \in {WritePlan(files, ExportBase(file_path), errs)} :
          \E fail \in 0..Len(plan) :
            /\ fail_at' = fail
            /\ IF fail = 0
               THEN /\ writes' = plan
                    /\ call_end' = "completed"
                    /\ dialogs' = <<MsgCompleted>>
               ELSE IF fail <= Len(files)
               THEN /\ writes' = SubSeq(plan, 1, fail - 1)
                    /\ call_end' = "raised"
                    /\ dialogs' = <<>>
               ELSE /\ writes' = files
                    /\ call_end' = "completed"
                    /\ dialogs' = <<MsgErrorFile, MsgCompleted>>
  /\ UNCHANGED file_path

\* export_files with a validation result cached.
ExportFiles(o) ==
  /\ call_end = "none"
  /\ ~(last_valid_docs = <<>> /\ last_errors = <<>>)
  /\ ExportCached(o, last_valid_docs, last_errors, last_warnings)

\* export_files with nothing cached: it calls preview_data first, and goes
\* on with whatever lists that leaves.
ExportFilesPreview(o, text, rd) ==
  /\ call_end = "none"
  /\ last_valid_docs = <<>> /\ last_errors = <<>>
  /\ file_path # NoFile => text = NoText
  /\ file_path = NoFile => rd = "ok"
  /\ \E res \in {SourceResult(file_path, text, rd)} :
       IF res.state = "raised"
       THEN /\ opts' = o
            /\ call_end' = "raised"
            /\ writes' = <<>>
            /\ fail_at' = 0
            /\ dialogs' = <<>>
            /\ UNCHANGED <<file_path, last_valid_docs, last_errors,
                           last_warnings>>
       ELSE IF res.state = "returned"
       THEN ExportCached(o, res.records, res.errors, res.warnings)
       ELSE ExportCached(o, last_valid_docs, last_errors, last_warnings)

\* The call is over and control is back in the event loop; what it did is
\* no longer tracked.
ExportDone ==
  /\ call_end # "none"
  /\ opts' = NoSettings
  /\ writes' = <<>>
  /\ call_end' = "none"
  /\ fail_at' = 0
  /\ dialogs' = <<>>
  /\ UNCHANGED <<file_path, last_valid_docs, last_errors, last_warnings>>

NextE ==
  \/ \E path \in Files : LoadFile(path) /\ UNCHANGED vvars
  \/ \E text \in Texts, rd \in ReadOutcomes :
       PreviewData(text, rd) /\ UNCHANGED vvars
  \/ \E o \in SettingsPool : ExportFiles(o) /\ UNCHANGED vvars
  \/ \E o \in SettingsPool, text \in Texts, rd \in ReadOutcomes :
       ExportFilesPreview(o, text, rd) /\ UNCHANGED vvars
  \/ ExportDone /\ UNCHANGED vvars

(***************************************************************************)
(* Specifications: the validation runs, and the application.               *)
(***************************************************************************)
Init == InitV /\ InitE

SpecV == Init /\ [][NextV]_vars

SpecE == Init /\ [][NextE]_vars

(***************************************************************************)
(* Properties of the validation runs.                                      *)
(***************************************************************************)
\* The identity key of a record.
IdentityKey(doc) == DocId(doc.sku, doc.postCode)

\* The raw texts the validator resolved for an entry of the input history.
RawIn(e) == e.raw

\* The entries of the input history that are rows or objects.
RowEntries == {i \in 1..Len(input) : input[i].kind = "row"}

\* An error entry of the run reports row n with this message.
Reported(n, msg) ==
  \E k \in 1..Len(errors) : errors[k].row = n /\ errors[k].error = msg

\* Some record of valid_docs came from row n.
Recorded(n) == \E k \in 1..Len(origin) : origin[k] = n

\* Some error entry of the run reports row n.
HasError(n) == \E k \in 1..Len(errors) : errors[k].row = n

\* C1: after any validation run no two records of the returned list have
\* the same identity key sku + "|" + postCode.
C1_UniqueIdentityKeys ==
  ret.state = "returned" =>
    \A i, j \in 1..Len(ret.records) :
      i # j => IdentityKey(ret.records[i]) # IdentityKey(ret.records[j])

\* C2 as stated: of two input rows with the same normalized (sku, postCode)
\* the later is reported "Duplicate id within file" and is no record,
\* whatever the price fields are.
C2_LaterRowAlwaysDuplicate ==
  \A i, j \in RowEntries :
    (i < j /\ RawIn(input[i]).sku = RawIn(input[j]).sku
           /\ RawIn(input[i]).postCode = RawIn(input[j]).postCode)
      => Reported(input[j].row, DuplicateMsg) /\ ~Recorded(input[j].row)

\* Resolved raw texts with no reason against any of the three fields.
PassesRaw(raw) ==
  /\ raw.sku # <<>> /\ is_valid_sku(raw.sku).ok
  /\ raw.postCode # <<>> /\ is_valid_postcode(raw.postCode).ok
  /\ raw.price # <<>> /\ normalize_price(raw.price).ok

\* A row with no reason against any of its three fields.
PassesFields(e) == PassesRaw(RawIn(e))

\* C2 as amended: of two input rows that both pass the field checks and
\* have the same resolved raw (sku, postCode), the later is reported
\* "Duplicate id within file" and is no record.
C2_LaterValidRowDuplicate ==
  LET raw == [i \in RowEntries |-> RawIn(input[i])]
      passing == {i \in RowEntries : PassesRaw(raw[i])}
  IN \A i, j \in passing :
       (/\ i < j
        /\ raw[i].sku = raw[j].sku
        /\ raw[i].postCode = raw[j].postCode)
         => Reported(input[j].row, DuplicateMsg) /\ ~Recorded(input[j].row)

\* Two rows with the same key and different valid prices were read and the
\* later one is reported as a duplicate.
C2_Witness ==
  \E i, j \in RowEntries :
    /\ i < j
    /\ PassesFields(input[i]) /\ PassesFields(input[j])
    /\ RawIn(input[i]).sku = RawIn(input[j]).sku
    /\ RawIn(input[i]).postCode = RawIn(input[j]).postCode
    /\ RawIn(input[i]).price # RawIn(input[j]).price
    /\ Reported(input[j].row, DuplicateMsg)
    /\ pc = "done"

\* C4: for validate_csv and validate_json a failure to open or read the
\* file never leaves the validator as an exception: the call returns zero
\* records and a single error entry whose row is 0.
C4_ReadFailureIsOneRowZeroError ==
  (pc = "done" /\ kind \in {"csv", "json"} /\ io_failed) =>
    /\ ret.state = "returned"
    /\ ret.records = <<>>
    /\ Len(ret.errors) = 1
    /\ ret.errors[1].row = 0

\* C7: for every source a row or object whose three resolved fields are all
\* empty is skipped: it adds no record and no error.
C7_AllEmptyRowSkipped ==
  \A i \in RowEntries :
    SkipsRow(RawIn(input[i])) =>
      ~HasError(input[i].row) /\ ~Recorded(input[i].row)

\* Some logical field has no alias among the header names h.
LacksField(h) ==
  \E f \in {"sku", "postCode", "price"} :
    \A i \in 1..Len(h) : \A a \in 1..Len(CSV_FIELD_ALIASES[f]) :
      StripLower(h[i]) # StripLower(CSV_FIELD_ALIASES[f][a])

\* C8: for a CSV or pasted source whose header line is missing or lacks an
\* alias of some logical field, the run returns exactly one error (row 1,
\* context "header") and no record, and reads no data row.
C8_BadHeaderOneError ==
  (pc # "idle" /\ kind \in {"csv", "pasted"} /\ ~io_failed
     /\ LacksField(fieldnames)) =>
    /\ pc = "done"
    /\ input = <<>>
    /\ ret.state = "returned"
    /\ ret.records = <<>>
    /\ Len(ret.errors) = 1
    /\ ret.errors[1].row = 1
    /\ ret.errors[1].context = CtxHeader

\* A CSV run on a header line without a price column has returned.
C8_Witness ==
  /\ pc = "done"
  /\ kind = "csv"
  /\ fieldnames = <<"SKU", "PostCode">>
  /\ ret.errors = <<ErrorEntry(1, CtxHeader, "Missing required columns: price")>>

\* The entries (records and errors) that row n of the input produced.
Produced(n) ==
  Cardinality({k \in 1..Len(errors) : errors[k].row = n})
    + Cardinality({k \in 1..Len(origin) : origin[k] = n})

\* C10: validate_json enters the line-by-line pass exactly when the load of
\* the whole file fails to parse or yields a value that is no array, and
\* then records exactly one warning; on an array there is no line-by-line
\* pass and no warning, and element i is validated as row i.
C10_FallbackOnlyWhenNotArray ==
  (kind = "json") =>
    /\ line_pass <=> load \in {"nonarray", "decodeerror"}
    /\ line_pass => Len(warnings) = 1
    /\ load = "array" =>
         /\ ~line_pass
         /\ warnings = <<>>
         /\ \A i \in 1..Len(input) : input[i].row = i /\ Produced(i) = 1
    /\ ret.state = "returned" => ret.warnings = warnings

\* An array with as many elements as the model allows was validated and
\* gave both a record and an error.
C10_Witness ==
  /\ kind = "json"
  /\ load = "array"
  /\ pc = "done"
  /\ Len(input) = MaxRows
  /\ Len(ret.records) >= 1
  /\ Len(ret.errors) >= 1

\* A file read line by line after its whole-file parse gave no array has
\* been validated with its one warning.
C10_WitnessLines ==
  /\ kind = "json"
  /\ load = "nonarray"
  /\ line_pass
  /\ pc = "done"
  /\ ret.state = "returned"
  /\ ret.warnings = <<WarnNotArray>>
  /\ Len(ret.records) >= 1

(***************************************************************************)
(* Properties of the export.                                               *)
(***************************************************************************)
\* An export_files call has run to its end, by return or by exception.
Exported == call_end \in {"completed", "refused", "raised"}

\* The path of the errors file of the current source.
ErrorsPath == ExportBase(file_path) \o cErrorsCsv

\* The record files written for one format, in the order of the writes.
FilesOf(ext) ==
  SelectSeq(writes, LAMBDA w : w.ext = ext /\ w.path # ErrorsPath)

\* Whether the settings of the export enable the format.
FormatOn(ext) == IF ext = cCsv THEN opts.csv ELSE opts.json

\* The rows the records make in the files of one format.
RowsOf(ext) ==
  [i \in 1..Len(last_valid_docs) |->
     IF ext = cCsv THEN CsvRow(last_valid_docs[i])
     ELSE JsonRow(last_valid_docs[i])]

\* C3: whenever the validation result holds at least one error, running
\* export_files writes the file <base>_errors.csv with one row per error,
\* in every batch mode and whatever the number of valid records (here: in
\* every call in which no write fails).
C3_ErrorsFileWritten ==
  (Exported /\ fail_at = 0 /\ last_errors # <<>>) =>
    \E i \in 1..Len(writes) :
      writes[i].path = ErrorsPath /\ writes[i].rows = last_errors

\* What a path holds after the export: the rows of the last write to it.
FinalRows(path) ==
  LET last == CHOOSE i \in 1..Len(writes) :
                /\ writes[i].path = path
                /\ \A j \in (i + 1)..Len(writes) : writes[j].path # path
  IN writes[last].rows

\* The paths of the record files of one format.
PathsOf(ext) == {FilesOf(ext)[i].path : i \in 1..Len(FilesOf(ext))}

\* C5: in group mode, after an export that completes, every record is in
\* exactly one group's output file of each enabled format.
C5_EveryRecordInOneGroupFile ==
  (call_end = "completed" /\ opts.enabled /\ opts.mode = "group") =>
    \A ext \in {cCsv, cJson} :
      FormatOn(ext) =>
        \A r \in 1..Len(last_valid_docs) :
          Cardinality({p \in PathsOf(ext) :
                        \E k \in 1..Len(FinalRows(p)) :
                          FinalRows(p)[k] = RowsOf(ext)[r]}) = 1

RECURSIVE ConcatRows(_)
\* The rows of a sequence of files, one file after the other.
ConcatRows(fs) ==
  IF fs = <<>> THEN <<>> ELSE Head(fs).rows \o ConcatRows(Tail(fs))

\* The label of batch i, for i up to 9.
PartLabel(i) ==
  <<"p", "a", "r", "t", "0", "0">>
    \o <<(<<"1", "2", "3", "4", "5", "6", "7", "8", "9">>)[i]>>

\* C6: in rows mode with rowsPerFile = k >= 1 and n records a completed
\* export writes, per enabled format, exactly ceil(n/k) batches labelled
\* part001, part002, ... in order; every batch but the last holds k
\* records, and the batches in order hold the records in their order.
C6_RowsModeBatches ==
  (/\ call_end = "completed"
   /\ opts.enabled /\ opts.mode = "rows"
   /\ opts.rows_per_file.ok /\ opts.rows_per_file.n >= 1) =>
    \A ext \in {cCsv, cJson} :
      FormatOn(ext) =>
        \E fs \in {FilesOf(ext)} :
        \E k \in {opts.rows_per_file.n} :
        \E n \in {Len(last_valid_docs)} :
          /\ (Len(fs) - 1) * k < n
          /\ n <= Len(fs) * k
          /\ \A i \in 1..Len(fs) : fs[i].batch = PartLabel(i)
          /\ \A i \in 1..(Len(fs) - 1) : Len(fs[i].rows) = k
          /\ ConcatRows(fs) = RowsOf(ext)

\* Three records were exported two to a file in both formats: two batches
\* of each format, the last one holding one record.
C6_Witness ==
  /\ call_end = "completed"
  /\ opts.enabled /\ opts.mode = "rows"
  /\ opts.rows_per_file = RowsPerFile(TRUE, 2)
  /\ opts.csv /\ opts.json
  /\ Len(last_valid_docs) = 3
  /\ Len(FilesOf(cCsv)) = 2
  /\ Len(FilesOf(cJson)) = 2
  /\ Len(FilesOf(cJson)[2].rows) = 1

\* The writes an export with these settings and lists is to make.
Planned ==
  WritePlan(RecordFiles(opts, ExportBase(file_path), last_valid_docs),
            ExportBase(file_path), last_errors)

\* C9: a failure while writing one output file of export_files is reported
\* and does not block the rest of the export: the call runs to its end and
\* the remaining batch or group files and the errors file are written.
C9_WriteFailureDoesNotBlock ==
  (Exported /\ fail_at > 0) =>
    /\ call_end = "completed"
    /\ \A i \in 1..Len(Planned) :
         i # fail_at => \E j \in 1..Len(writes) : writes[j] = Planned[i]

(***************************************************************************)
(* Further properties of the validation runs.                              *)
(***************************************************************************)
\* The record the validator builds from a row of the input history.
DocOfEntry(e) ==
  build_doc(RawIn(e).sku, RawIn(e).postCode,
            normalize_price(RawIn(e).price).val)

\* C11: the records of a validation run keep the order of the input rows:
\* record k is the record of an input row, the rows of the records ascend,
\* and a returned records list holds the records in that order.
C11_RecordsKeepRowOrder ==
  /\ Len(origin) = Len(valid_docs)
  /\ \A k, l \in 1..Len(origin) : k < l => origin[k] < origin[l]
  /\ \A k \in 1..Len(valid_docs) :
       \E i \in RowEntries :
         input[i].row = origin[k] /\ valid_docs[k] = DocOfEntry(input[i])
  /\ (ret.state = "returned" /\ ~io_failed) => ret.records = valid_docs

\* A run returned two different records with an error row between them.
C11_Witness ==
  /\ pc = "done"
  /\ ret.state = "returned"
  /\ Len(ret.records) = 2
  /\ ret.records[1] # ret.records[2]
  /\ origin[2] - origin[1] = 2
  /\ HasError(origin[1] + 1)

\* The rows of the input history the validator does not skip.
NonSkipped == {i \in RowEntries : ~SkipsRow(RawIn(input[i]))}

\* C12: in a run over a CSV or pasted source with a valid header every data
\* row is skipped (all three fields empty) or gives exactly one error entry
\* or exactly one record, never both; so |records| + |errors| is the number
\* of rows not skipped, and these are the lists the run returns.
C12_OneOutcomePerRow ==
  (kind \in {"csv", "pasted"} /\ pc \in {"rows", "done"} /\ ~io_failed
     /\ ~LacksField(fieldnames)) =>
    /\ \A i \in RowEntries :
         Produced(input[i].row) =
           (IF SkipsRow(RawIn(input[i])) THEN 0 ELSE 1)
    /\ Len(valid_docs) + Len(errors) = Cardinality(NonSkipped)
    /\ ret.state = "returned" =>
         ret.records = valid_docs /\ ret.errors = errors

\* A run read a skipped row, a row with an error and a row that became a
\* record, and returned.
C12_Witness ==
  /\ kind \in {"csv", "pasted"}
  /\ pc = "done"
  /\ ret.state = "returned"
  /\ Len(input) = 3
  /\ Len(ret.records) = 1
  /\ Len(ret.errors) = 1
  /\ Cardinality(NonSkipped) = 2

(***************************************************************************)
(* Further properties of the export.                                       *)
(***************************************************************************)
\* C13: when a write fails partway through an export in rows or group mode,
\* every batch file completely written before the failure is in place with
\* the content it was written with.  (The file of the failing write is in
\* no entry of writes; what it is left with is not stated here.)
C13_WrittenBatchesStay ==
  (call_end = "raised" /\ fail_at > 0 /\ opts.enabled) =>
    \A i \in 1..Len(writes) : FinalRows(writes[i].path) = writes[i].rows

(***************************************************************************)
(* Properties of the field resolver.                                       *)
(***************************************************************************)
\* The alias lists as the claim C14 gives them.
ClaimedAliases ==
  [sku |-> <<"sku", "productcode", "product_code", "product code",
             "productid">>,
   postCode |-> <<"postcode", "post_code", "post code", "zip", "zip_code">>,
   price |-> <<"price", "unit_price", "unitprice", "unit price", "amount">>]

\* The logical fields none of whose claimed aliases is among the header
\* names h, trimmed and lower-cased.
ClaimedMissing(h) ==
  SelectSeq(<<"sku", "postCode", "price">>,
            LAMBDA f :
              ~\E a \in 1..Len(ClaimedAliases[f]) :
                 \E i \in 1..Len(h) : StripLower(h[i]) = ClaimedAliases[f][a])

\* The value under the first claimed alias of f the row holds, else None.
ClaimedValue(row, f) ==
  LET al == ClaimedAliases[f]
      hit == {a \in 1..Len(al) : HasKey(row, al[a])}
  IN IF hit = {} THEN None
     ELSE Lookup(row, al[CHOOSE a \in hit : \A b \in hit : a <= b])

\* C14: a header, trimmed and lower-cased, is accepted for a logical field
\* exactly when it is in the field's alias list as the claim gives it: the
\* header line is refused for exactly the fields with no such header, and
\* each field of a row is resolved to the value under the first listed
\* alias the row holds.
C14_AliasListsAsClaimed ==
  (kind \in {"csv", "pasted"} /\ pc \in {"rows", "done"} /\ ~io_failed
     /\ fieldnames # <<>>) =>
    /\ IF ClaimedMissing(fieldnames) = <<>>
       THEN \A k \in 1..Len(errors) : errors[k].context # CtxHeader
       ELSE errors =
              <<ErrorEntry(1, CtxHeader,
                           "Missing required columns: "
                             \o Join(ClaimedMissing(fieldnames), ", "))>>
    /\ \A i \in RowEntries :
         \A f \in {"sku", "postCode", "price"} :
           field_from_row(lower_keys(input[i].d), f)
             = ClaimedValue(lower_keys(input[i].d), f)

(***************************************************************************)
(* Properties of the prices.                                               *)
(***************************************************************************)
\* The float literal in a raw price text, as normalize_price reads it.
LiteralIn(raw_price) == ParseFloat(RemoveChars(raw_price, PriceStrip))

\* The thousandths in a parsed literal, rounded down.
Thousandths(f) ==
  DigitsVal(f.ip) * 1000
    + DigitsVal(SubSeq(f.fp \o <<"0", "0", "0">>, 1, 3))

\* A parsed literal below zero.
BelowZero(f) == f.ok /\ f.neg /\ (f.inf \/ Thousandths(f) > 0)

\* The row of the input history record k came from.
RowOfRecord(k) == CHOOSE i \in RowEntries : input[i].row = origin[k]

\* C15: every record has a price that is not negative and is the raw price
\* rounded to 2 decimal places (a whole number of cents within half a cent
\* of it); a raw price that parses to a negative value has the reason
\* "price negative", one that does not parse has "price not a number", and
\* such a row is an error entry (with exactly that text, when sku and
\* postCode pass) and never a record.
C15_RecordPricesRounded ==
  /\ \A k \in 1..Len(valid_docs) :
       \E f \in {LiteralIn(RawIn(input[RowOfRecord(k)]).price)} :
         /\ f.ok /\ ~BelowZero(f) /\ ~f.inf
         /\ valid_docs[k].price >= 0
         /\ 10 * valid_docs[k].price - 5 <= Thousandths(f)
         /\ Thousandths(f) <= 10 * valid_docs[k].price + 5
  /\ \A i \in RowEntries :
       \E raw \in {RawIn(input[i])} :
       \E f \in {LiteralIn(raw.price)} :
         (raw.price # <<>> /\ (~f.ok \/ BelowZero(f))) =>
           \E msg \in {IF f.ok THEN "price negative"
                       ELSE "price not a number"} :
             /\ normalize_price(raw.price).err = msg
             /\ ~Recorded(input[i].row)
             /\ HasError(input[i].row)
             /\ (raw.sku # <<>> /\ is_valid_sku(raw.sku).ok
                   /\ raw.postCode # <<>> /\ is_valid_postcode(raw.postCode).ok)
                  => Reported(input[i].row, msg)

\* A run returned a record whose price 1.239 was rounded to 1.24 and an
\* error entry for a negative price.
C15_Witness ==
  /\ pc = "done"
  /\ ret.state = "returned"
  /\ \E k \in 1..Len(ret.records) :
       /\ ret.records[k].price = 124
       /\ RawIn(input[RowOfRecord(k)]).price = c1239
  /\ \E i \in RowEntries :
       /\ RawIn(input[i]).price = cMinus5
       /\ Reported(input[i].row, "price negative")

(***************************************************************************)
(* Properties of the reason list.                                          *)
(***************************************************************************)
\* The one reason a field can have: "<field> missing" for an empty raw
\* text, else the validator's reason when it rejects the text.
FieldReason(name, raw, verdict) ==
  IF raw = <<>> THEN <<name \o " missing">>
  ELSE IF ~verdict.ok THEN <<verdict.err>>
  ELSE <<>>

\* The reasons for the three raw texts, field by field.
FieldReasons(raw) ==
  << FieldReason("sku", raw.sku, is_valid_sku(raw.sku)),
     FieldReason("postCode", raw.postCode, is_valid_postcode(raw.postCode)),
     FieldReason("price", raw.price, normalize_price(raw.price)) >>

\* The "missing" reasons of the list.
MissingOf(rs) ==
  SelectSeq(rs[1] \o rs[2] \o rs[3],
            LAMBDA r : r \in {"sku missing", "postCode missing",
                              "price missing"})

\* The validators' reasons of the list.
InvalidOf(rs) ==
  SelectSeq(rs[1] \o rs[2] \o rs[3],
            LAMBDA r : r \notin {"sku missing", "postCode missing",
                                 "price missing"})

\* The error entries of the run that report row n.
ErrorsOf(n) == {k \in 1..Len(errors) : errors[k].row = n}

\* C17: for every row the loop does not skip, each of sku, postCode and
\* price has at most one reason ("<field> missing" exactly when its raw text
\* is empty, else the validator's reason exactly when it rejects the text);
\* the row has one error entry, with the reasons joined by "; " and the
\* context "sku=<raw_sku>, postCode=<raw_pc>", exactly when there is a
\* reason, and then it gives no record and no duplicate error.
C17_ReasonListPerRow ==
  \A i \in RowEntries :
    (kind = "json" \/ ~SkipsRow(RawIn(input[i]))) =>
      \E rs \in {FieldReasons(RawIn(input[i]))} :
        IF rs[1] \o rs[2] \o rs[3] # <<>>
        THEN /\ Cardinality(ErrorsOf(input[i].row)) = 1
             /\ \A k \in ErrorsOf(input[i].row) :
                  errors[k] =
                    ErrorEntry(input[i].row,
                               RowContext(RawIn(input[i]).sku,
                                          RawIn(input[i]).postCode),
                               Join(MissingOf(rs) \o InvalidOf(rs), "; "))
             /\ ~Recorded(input[i].row)
        ELSE \A k \in ErrorsOf(input[i].row) :
               errors[k].error = DuplicateMsg

\* A row with a missing field and a rejected one has its error entry, and
\* a row without a reason has its record.
C17_Witness ==
  /\ \E i \in RowEntries :
       /\ RawIn(input[i]).price = <<>>
       /\ RawIn(input[i]).sku # <<>>
       /\ ~is_valid_sku(RawIn(input[i]).sku).ok
       /\ ErrorsOf(input[i].row) # {}
  /\ \E i \in RowEntries : Recorded(input[i].row)

C18_ExportWritesCurrentSource ==
  (call_end = "completed" /\ file_path # NoFile) =>
    \E files \in {RecordFiles(opts, ExportBase(file_path),
                              FileResult[file_path].records)} :
      /\ Len(writes) >= Len(files)
      /\ SubSeq(writes, 1, Len(files)) = files

====
